---- MODULE Spec2Model ----
(***************************************************************************)
(* Model of transfer.py: the PGDB and MDB handlers and the driver main(),  *)
(* which extracts every Postgres table as JSON, loads the tables as        *)
(* MongoDB collections, runs a battery of aggregations, creates a view,    *)
(* mutates some documents and finally deletes the short films with their   *)
(* inventory, rentals and payments.                                        *)
(*                                                                         *)
(* One action per statement of main() that talks to a database; a handler  *)
(* method called by main() is one action that models the whole method.     *)
(* The Postgres source and the MongoDB server are the environment: their   *)
(* contents are variables, and their failures are inputs of the actions.   *)
(*                                                                         *)
(* Spec is one execution of main().  SpecTwice is main() executed again    *)
(* and again on the same source and server.  SpecRest is the part of       *)
(* main() from line 468 on, which no execution of main() reaches: line 466 *)
(* passes the document that insert_one has just given an ObjectId to       *)
(* json.dumps, which raises TypeError.                                     *)
(***************************************************************************)
EXTENDS Integers, Sequences, FiniteSets, TLC

\* ------------------------------------------------------------------ bounds
\* successive executions of main() against the same source and server
MaxRuns == 2
\* store / query errors the environment injects, over all executions
MaxFaults == 1
\* source tables that hold zero rows
MaxEmptyTables == 1
\* the largest number of results the server puts in one cursor batch (the
\* server's own limit is 101 documents for the first batch)
MaxBatch == 2

\* ------------------------------------------------------- program constants
ShortLength == 60
NewAddressId == 6969
NewStoreId == 69
NewCityId == 300

\* the read battery of main(), in call order: <<collection, pipeline>>
Battery ==
  << <<"film", "count_films">>,
     <<"inventory", "count_films_location">>,
     <<"film_actor", "find_top_actors">>,
     <<"payment", "find_revenue">>,
     <<"rental", "find_most_rentals">>,
     <<"payment", "find_big_spender">>,
     <<"rental", "find_popular_titles">>,
     <<"rental", "find_popular_category">> >>

\* ------------------------------------------------------------- the source
\* hashlib.md5(...).hexdigest(): a digest is a token determined by its input
Md5(t) == <<"md5", t>>

BaseTables == <<"film", "inventory", "rental", "payment", "staff", "address", "store">>

\* what pg_tables can list: the rental schema, with or without a table that
\* carries the name of the view main() creates
TableLists == {BaseTables, BaseTables \o <<"customer_list">>}

FullRows ==
  [film |-> << [film_id |-> 1, length |-> 50],
               [film_id |-> 2, length |-> 90],
               [film_id |-> 3, length |-> 40] >>,
   inventory |-> << [inventory_id |-> 1, film_id |-> 1, store_id |-> 1, last_update |-> 0],
                    [inventory_id |-> 2, film_id |-> 1, store_id |-> 1, last_update |-> 0],
                    [inventory_id |-> 3, film_id |-> 2, store_id |-> 1, last_update |-> 0] >>,
   rental |-> << [rental_id |-> 1, inventory_id |-> 1],
                 [rental_id |-> 2, inventory_id |-> 2],
                 [rental_id |-> 3, inventory_id |-> 3] >>,
   payment |-> << [payment_id |-> 1, rental_id |-> 1],
                  [payment_id |-> 2, rental_id |-> 2],
                  [payment_id |-> 3, rental_id |-> 3] >>,
   staff |-> << [staff_id |-> 1, password |-> Md5(0), last_update |-> 0] >>,
   address |-> << [address_id |-> 1, city_id |-> 1, last_update |-> 0] >>,
   store |-> << [store_id |-> 1, address_id |-> 1, last_update |-> 0] >>,
   customer_list |-> << [customer_id |-> 1] >>]

Range(s) == {s[i] : i \in 1..Len(s)}

\* ------------------------------------------------------------------ state
VARIABLES
  pgTables,        \* source: the table names pg_tables lists, in order
  pgRows,          \* source: table name -> rows
  run,             \* which execution of main() this is
  pc,              \* position of main()
  pgConn,          \* PostgresDB.conn: "absent" (no attribute), "open", "closed"
  listTables,      \* PostgresDB.listTables
  json_tables,     \* the dict returned by get_json_tables, in insertion order
  hasDb,           \* MongoDB has the attribute db
  listCollections, \* MongoDB.listCollections
  db,              \* server: collection name -> documents, in natural order
  views,           \* server: view name -> [viewOn, pipeline]
  readIdx,         \* the next read of the battery
  staffCur,        \* cursor of main(): staff
  invCur,          \* cursor of main(): inventory, [buf, rest]
  item,            \* loop variable of the delete loop
  rentsCur,        \* cursor of main(): rents
  clock,           \* time.time_ns() / datetime.now()
  oid,             \* the counter of the ObjectIds this process generated
  faults,          \* errors injected so far
  phases,          \* history: the phases this execution entered: Extracting with
                   \* the try block, the next ones at the START markers main()
                   \* logs (lines 423, 425, 455, 479), Done in finally
  attempted,       \* history: the operations this execution issued to the store
  readLog,         \* history: the reads this execution attempted
  errors,          \* history: the functions that logged with logging.error
  failed,          \* history: <<what, target>> of every operation that raised
  viewReported,    \* history: main() logged "View successfully created."
  deleted,         \* history: the keys the delete phase removed
  lastRun          \* history: how the previous execution ended

vars == <<pgTables, pgRows, run, pc, pgConn, listTables, json_tables, hasDb,
          listCollections, db, views, readIdx, staffCur, invCur, item, rentsCur,
          clock, oid, faults, phases, attempted, readLog, errors, failed, viewReported,
          deleted, lastRun>>

source == <<pgTables, pgRows>>
process == <<pgConn, listTables, json_tables, hasDb, listCollections>>
server == <<db, views>>
cursors == <<staffCur, invCur, item, rentsCur>>
time == <<clock, oid>>
history == <<phases, attempted, readLog, errors, failed, viewReported, deleted>>

EmptyDb == [n \in {} |-> <<>>]
NoItem == [inventory_id |-> 0, film_id |-> 0]
NoCursor == [buf |-> <<>>, rest |-> <<>>]
NoRun == [pc |-> "none", db |-> EmptyDb, views |-> EmptyDb, errors |-> {}, failed |-> {}]
NoDeleted == [film |-> {}, inventory |-> {}, rental |-> {}]

\* the outcomes the environment may give a store operation now
Outcomes == IF faults < MaxFaults THEN {TRUE, FALSE} ELSE {TRUE}
Fault(ok) == IF ok THEN faults ELSE faults + 1

\* the state before main() is called: a source, an empty server, and f of
\* the MaxFaults errors already spent
Start(f) ==
  /\ pgTables \in TableLists
  /\ \E empty \in SUBSET Range(pgTables) :
       /\ Cardinality(empty) <= MaxEmptyTables
       /\ pgRows = [t \in Range(pgTables) |-> IF t \in empty THEN <<>> ELSE FullRows[t]]
  /\ run = 1
  /\ pc = "read_config_pg"
  /\ pgConn = "absent"
  /\ listTables = <<>>
  /\ json_tables = <<>>
  /\ hasDb = FALSE
  /\ listCollections = <<>>
  /\ db = EmptyDb
  /\ views = EmptyDb
  /\ readIdx = 1
  /\ staffCur = <<>>
  /\ invCur = NoCursor
  /\ item = NoItem
  /\ rentsCur = <<>>
  /\ clock = 1
  /\ oid = 0
  /\ faults = f
  /\ phases = <<>>
  /\ attempted = {}
  /\ readLog = <<>>
  /\ errors = {}
  /\ failed = {}
  /\ viewReported = FALSE
  /\ deleted = NoDeleted
  /\ lastRun = NoRun

Init == Start(0)

\* ------------------------------------------------------------ read_config
\* read_config(filename, section): raises FileNotFoundError when the file has
\* no such section.  Whether it has is an input of the call.
read_config_pg ==
  /\ pc = "read_config_pg"
  /\ \E has_section \in BOOLEAN :
       pc' = IF has_section THEN "PGDB" ELSE "raised"
  /\ UNCHANGED <<source, run, process, server, readIdx, cursors, time, faults,
                 history, lastRun>>

\* ------------------------------------------------------------------- PGDB
RECURSIVE FlattenNotNone(_)
\* [x for t in rows for x in t if x is not None]
FlattenNotNone(rows) ==
  IF rows = <<>> THEN <<>>
  ELSE SelectSeq(Head(rows), LAMBDA x : x # "None") \o FlattenNotNone(Tail(rows))

\* list_tables: fetchall() gives one 1-tuple per row of pg_tables
list_tables == FlattenNotNone([i \in 1..Len(pgTables) |-> <<pgTables[i]>>])

\* PGDB.__init__: every exception is logged and swallowed.  "refused": connect
\* raises, the object has no conn; "broken": connect succeeds and a later
\* statement raises, the object has conn and an empty listTables.
PGDB_init ==
  /\ pc = "PGDB"
  /\ \E outcome \in {"refused", "broken", "ok"} :
       /\ pgConn' = IF outcome = "refused" THEN "absent" ELSE "open"
       /\ listTables' = IF outcome = "ok" THEN list_tables ELSE <<>>
       /\ errors' = IF outcome = "ok" THEN errors ELSE errors \cup {"PGDB"}
       /\ failed' = IF outcome = "refused" THEN failed \cup {<<"connect", "postgresql">>}
                    ELSE failed
  /\ pc' = "read_config_mongo"
  /\ UNCHANGED <<source, run, json_tables, hasDb, listCollections, server, readIdx,
                 cursors, time, faults, phases, attempted, readLog, viewReported,
                 deleted, lastRun>>

read_config_mongo ==
  /\ pc = "read_config_mongo"
  /\ \E has_section \in BOOLEAN :
       pc' = IF has_section THEN "MDB" ELSE "raised"
  /\ UNCHANGED <<source, run, process, server, readIdx, cursors, time, faults,
                 history, lastRun>>

\* -------------------------------------------------------------------- MDB
\* a bug MDB.__init__ does not have: the old database is kept
drop_nothing(d) == d

\* client.drop_database('dvdrental'): the collections and the views go
drop_database(d) == EmptyDb

\* MDB.__init__: drop_database raises when no server answers; the exception is
\* swallowed and the object is left without the attribute db.
MDB_init ==
  /\ pc = "MDB"
  /\ listCollections' = <<>>
  /\ \E up \in BOOLEAN :
       /\ hasDb' = up
       /\ db' = IF up THEN drop_database(db) ELSE db
       /\ views' = IF up THEN drop_database(views) ELSE views
       /\ attempted' = IF up THEN attempted \cup {"drop_database"} ELSE attempted
       /\ errors' = IF up THEN errors ELSE errors \cup {"MDB"}
       /\ failed' = IF up THEN failed ELSE failed \cup {<<"connect", "mongodb">>}
  /\ phases' = Append(phases, "Extracting")
  /\ pc' = "get_json_tables"
  /\ UNCHANGED <<source, run, pgConn, listTables, json_tables, readIdx, cursors,
                 time, faults, readLog, viewReported, deleted, lastRun>>

\* -------------------------------------------------------- get_json_tables
\* SELECT json_agg(t.*) FROM t: one row with one column, NULL for no rows
json_agg(rows) ==
  IF rows = <<>> THEN [null |-> TRUE, val |-> <<>>] ELSE [null |-> FALSE, val |-> rows]

fetchall(table) == << <<json_agg(pgRows[table])>> >>

RECURSIVE Concat(_)
Concat(ss) == IF ss = <<>> THEN <<>> ELSE Head(ss) \o Concat(Tail(ss))

\* the cells j of "for i in json_table for j in i"
Cells(json_table) == Concat(json_table)

\* [k for i in json_table for j in i for k in j if k is not None]:
\* iterating a cell that is None raises TypeError
ComprehensionRaises(json_table) ==
  \E c \in 1..Len(Cells(json_table)) : Cells(json_table)[c].null

Comprehension(json_table) ==
  Concat([c \in 1..Len(Cells(json_table)) |-> Cells(json_table)[c].val])

RECURSIVE ExtractLoop(_, _, _)
\* the loop of get_json_tables from table i on; the query of table failAt
\* raises.  The try statement encloses the loop: an exception ends it.
ExtractLoop(i, failAt, acc) ==
  IF i > Len(listTables) THEN [dict |-> acc, raised |-> {}]
  ELSE IF i = failAt \/ ComprehensionRaises(fetchall(listTables[i]))
       THEN [dict |-> acc, raised |-> {<<"extract", listTables[i]>>}]
       ELSE ExtractLoop(i + 1, failAt,
              Append(acc, [table |-> listTables[i],
                           docs |-> Comprehension(fetchall(listTables[i]))]))

get_json_tables ==
  /\ pc = "get_json_tables"
  /\ \E failAt \in 0..Len(listTables) :
       /\ failAt # 0 => faults < MaxFaults
       /\ LET r == ExtractLoop(1, failAt, <<>>) IN
            /\ json_tables' = r.dict
            /\ errors' = IF r.raised # {} THEN errors \cup {"get_json_tables"} ELSE errors
            /\ failed' = failed \cup r.raised
       /\ faults' = IF failAt # 0 THEN faults + 1 ELSE faults
  /\ phases' = Append(phases, "Loading")
  /\ pc' = "json_dict_insert"
  /\ UNCHANGED <<source, run, pgConn, listTables, hasDb, listCollections, server,
                 readIdx, cursors, time, attempted, readLog, viewReported, deleted,
                 lastRun>>

\* ------------------------------------------------------- json_dict_insert
Put(d, name, docs) ==
  [n \in DOMAIN d \cup {name} |-> IF n = name THEN docs ELSE d[n]]

Docs(d, name) == IF name \in DOMAIN d THEN d[name] ELSE <<>>

\* bson.ObjectId(): unique to the process and the call
ObjectId(n) == <<"ObjectId", run, n>>

\* insert_one / insert_many give every document that has none the key _id,
\* in place, before they send it
WithId(doc, n) == [f \in DOMAIN doc \cup {"_id"} |-> IF f = "_id" THEN ObjectId(n) ELSE doc[f]]

WithIds(docs, n) == [k \in 1..Len(docs) |-> WithId(docs[k], n + k)]

RECURSIVE InsertLoop(_, _, _, _, _, _)
\* the loop of json_dict_insert from entry i on; insert_many of entry failAt
\* raises after it stored the first partial documents.  insert_many raises on
\* an empty list.  The try statement encloses the loop.
InsertLoop(i, failAt, partial, d, lc, n) ==
  IF i > Len(json_tables) THEN [db |-> d, lc |-> lc, oid |-> n, raised |-> {}]
  ELSE LET t == json_tables[i].table
           docs == json_tables[i].docs
       IN IF ~hasDb \/ docs = <<>>
          THEN [db |-> d, lc |-> lc, oid |-> n, raised |-> {<<"insert", t>>}]
          ELSE IF i = failAt
               THEN [db |-> IF partial = 0 THEN d
                            ELSE Put(d, t, Docs(d, t) \o SubSeq(WithIds(docs, n), 1, partial)),
                     lc |-> lc, oid |-> n + Len(docs), raised |-> {<<"insert", t>>}]
               ELSE InsertLoop(i + 1, failAt, partial,
                               Put(d, t, Docs(d, t) \o WithIds(docs, n)), Append(lc, t),
                               n + Len(docs))

json_dict_insert ==
  /\ pc = "json_dict_insert"
  /\ \E failAt \in 0..Len(json_tables) :
       /\ failAt # 0 => faults < MaxFaults /\ hasDb
       /\ \E partial \in 0..(IF failAt = 0 THEN 0 ELSE Len(json_tables[failAt].docs) - 1) :
            LET r == InsertLoop(1, failAt, partial, db, listCollections, oid) IN
              /\ db' = r.db
              /\ listCollections' = r.lc
              /\ oid' = r.oid
              /\ errors' = IF r.raised # {} THEN errors \cup {"json_dict_insert"} ELSE errors
              /\ failed' = failed \cup r.raised
       /\ faults' = IF failAt # 0 THEN faults + 1 ELSE faults
  /\ attempted' = IF hasDb /\ json_tables # <<>>
                  THEN attempted \cup {"insert_many"} ELSE attempted
  /\ phases' = Append(phases, "Reading")
  /\ pc' = "aggregate"
  /\ readIdx' = 1
  /\ UNCHANGED <<source, run, pgConn, listTables, json_tables, hasDb, views, cursors,
                 clock, readLog, viewReported, deleted, lastRun>>

\* -------------------------------------------------------------- aggregate
\* a bug MDB.aggregate does not have: the exception reaches main()
AggregatePropagates(raised) ==
  IF raised THEN "finally"
  ELSE IF readIdx < Len(Battery) THEN "aggregate" ELSE "create_view"

\* where main() goes after a call of MDB.aggregate: the method catches every
\* exception, so the next statement of main() runs whether it raised or not
AfterAggregate(raised) ==
  IF readIdx < Len(Battery) THEN "aggregate" ELSE "create_view"

\* a read that makes the collection it names when the namespace has none
aggregate_creates ==
  /\ pc = "aggregate"
  /\ \E ok \in Outcomes :
       LET collection == Battery[readIdx][1]
           pipeline == Battery[readIdx][2]
           raised == ~hasDb \/ ~ok
       IN /\ ~hasDb => ok
          /\ readLog' = Append(readLog, <<collection, pipeline>>)
          /\ db' = IF raised THEN db ELSE Put(db, collection, Docs(db, collection))
          /\ attempted' = IF hasDb THEN attempted \cup {"aggregate"} ELSE attempted
          /\ errors' = IF raised THEN errors \cup {"aggregate"} ELSE errors
          /\ failed' = IF raised THEN failed \cup {<<"read", pipeline>>} ELSE failed
          /\ faults' = Fault(ok)
          /\ pc' = AfterAggregate(raised)
  /\ readIdx' = IF pc' = "aggregate" THEN readIdx + 1 ELSE readIdx
  /\ UNCHANGED <<source, run, process, views, cursors, time, phases, viewReported,
                 deleted, lastRun>>

\* MDB.aggregate(collection, pipeline), called with the next read of the
\* battery.  Without the attribute db the call raises AttributeError.
aggregate ==
  /\ pc = "aggregate"
  /\ \E ok \in Outcomes :
       LET collection == Battery[readIdx][1]
           pipeline == Battery[readIdx][2]
           raised == ~hasDb \/ ~ok
       IN /\ ~hasDb => ok
          /\ collection # ""
          /\ readLog' = Append(readLog, <<collection, pipeline>>)
          /\ attempted' = IF hasDb THEN attempted \cup {"aggregate"} ELSE attempted
          /\ errors' = IF raised THEN errors \cup {"aggregate"} ELSE errors
          /\ failed' = IF raised THEN failed \cup {<<"read", pipeline>>} ELSE failed
          /\ faults' = Fault(ok)
          /\ pc' = AfterAggregate(raised)
  /\ readIdx' = IF pc' = "aggregate" THEN readIdx + 1 ELSE readIdx
  /\ UNCHANGED <<source, run, process, server, cursors, time, phases, viewReported,
                 deleted, lastRun>>

\* ------------------------------------------------------------ create_view
\* create_collection raises when the namespace has a collection or a view of
\* that name
NameExists(name) == name \in DOMAIN db \cup DOMAIN views

\* MDB.create_view('customer_list', 'customer', get_pipeline_customer_view()),
\* and the log line of main() after it.  The method catches every exception.
create_view ==
  /\ pc = "create_view"
  /\ \E ok \in Outcomes :
       LET name == "customer_list"
           raised == ~hasDb \/ ~ok \/ NameExists(name)
       IN /\ ~hasDb => ok
          /\ views' = IF raised THEN views
                      ELSE Put(views, name, [viewOn |-> "customer",
                                             pipeline |-> "get_pipeline_customer_view"])
          /\ attempted' = IF hasDb THEN attempted \cup {"create_view"} ELSE attempted
          /\ errors' = IF raised THEN errors \cup {"create_view"} ELSE errors
          /\ failed' = IF raised THEN failed \cup {<<"view", name>>} ELSE failed
          /\ faults' = Fault(ok)
  /\ viewReported' = TRUE
  /\ phases' = Append(phases, "Mutating")
  /\ pc' = "staff_aggregate"
  /\ UNCHANGED <<source, run, process, db, readIdx, cursors, time, readLog, deleted,
                 lastRun>>

\* ------------------------------------------------------ main(): mutations
\* the first document of a collection with key = val, 0 when there is none
FirstIndex(docs, key, val) ==
  LET S == {i \in 1..Len(docs) : key \in DOMAIN docs[i] /\ docs[i][key] = val}
  IN IF S = {} THEN 0 ELSE CHOOSE i \in S : \A j \in S : i <= j

\* {'$set': upd}
SetFields(doc, upd) ==
  [f \in DOMAIN doc \cup DOMAIN upd |-> IF f \in DOMAIN upd THEN upd[f] ELSE doc[f]]

\* collection.update_one({key: val}, {'$set': upd}): no upsert
update_one(d, coll, key, val, upd) ==
  IF coll \notin DOMAIN d \/ FirstIndex(Docs(d, coll), key, val) = 0 THEN d
  ELSE [d EXCEPT ![coll] =
          [@ EXCEPT ![FirstIndex(d[coll], key, val)] = SetFields(@, upd)]]

\* collection.update_many({}, {'$set': upd})
update_many(d, coll, upd) ==
  IF coll \notin DOMAIN d THEN d
  ELSE [d EXCEPT ![coll] = [i \in 1..Len(@) |-> SetFields(@[i], upd)]]

\* collection.insert_one(doc): creates the collection when it is missing
insert_one(d, coll, doc) == Put(d, coll, Append(Docs(d, coll), doc))

\* collection.delete_many({key: val})
delete_many(d, coll, key, val) ==
  IF coll \notin DOMAIN d THEN d
  ELSE [d EXCEPT ![coll] =
          SelectSeq(@, LAMBDA x : ~(key \in DOMAIN x /\ x[key] = val))]

\* json.dumps(doc) raises TypeError on an ObjectId, which is what _id holds
json_dumps_raises(doc) == "_id" \in DOMAIN doc

\* line 457: staff = MongoDB.db['staff'].aggregate([]).  An exception in the
\* try block of main() goes to the except clause and on to finally.
staff_aggregate ==
  /\ pc = "staff_aggregate"
  /\ \E ok \in Outcomes :
       LET raised == ~hasDb \/ ~ok
       IN /\ ~hasDb => ok
          /\ staffCur' = IF raised THEN <<>> ELSE Docs(db, "staff")
          /\ attempted' = IF hasDb THEN attempted \cup {"staff_aggregate"} ELSE attempted
          /\ errors' = IF raised THEN errors \cup {"main"} ELSE errors
          /\ failed' = IF raised THEN failed \cup {<<"op", "staff_aggregate">>} ELSE failed
          /\ faults' = Fault(ok)
          /\ pc' = IF raised THEN "finally" ELSE "staff_update"
  /\ UNCHANGED <<source, run, process, server, readIdx, invCur, item, rentsCur, time,
                 phases, readLog, viewReported, deleted, lastRun>>

\* lines 458-461: one turn of the loop over staff, or its end
staff_update ==
  /\ pc = "staff_update"
  /\ IF staffCur = <<>>
     THEN /\ pc' = "address_insert"
          /\ UNCHANGED <<db, staffCur, clock, attempted, errors, failed, faults>>
     ELSE \E ok \in Outcomes :
            LET employee == Head(staffCur)
                new_password == Md5(clock)
                last_update == clock + 1
            IN /\ clock' = clock + 2
               /\ staffCur' = Tail(staffCur)
               /\ db' = IF ok
                        THEN update_one(db, "staff", "staff_id", employee.staff_id,
                                        [password |-> new_password,
                                         last_update |-> last_update])
                        ELSE db
               /\ attempted' = attempted \cup {"update_one"}
               /\ errors' = IF ok THEN errors ELSE errors \cup {"main"}
               /\ failed' = IF ok THEN failed ELSE failed \cup {<<"op", "update_one">>}
               /\ faults' = Fault(ok)
               /\ pc' = IF ok THEN "staff_update" ELSE "finally"
  /\ UNCHANGED <<source, run, process, views, readIdx, invCur, item, rentsCur, oid,
                 phases, readLog, viewReported, deleted, lastRun>>

\* lines 464-466: insert_one(new_addr), then the log line with
\* json.dumps(new_addr)
address_insert ==
  /\ pc = "address_insert"
  /\ \E ok \in Outcomes :
       LET new_addr == [address_id |-> NewAddressId, city_id |-> NewCityId,
                        last_update |-> clock]
           stored == WithId(new_addr, oid + 1)
       IN /\ db' = IF ok THEN insert_one(db, "address", stored) ELSE db
          /\ errors' = IF ~ok \/ json_dumps_raises(stored)
                       THEN errors \cup {"main"} ELSE errors
          /\ failed' = IF ~ok THEN failed \cup {<<"op", "address_insert">>}
                       ELSE IF json_dumps_raises(stored) THEN failed \cup {<<"log", "new_addr">>}
                       ELSE failed
          /\ pc' = IF ~ok \/ json_dumps_raises(stored) THEN "finally" ELSE "store_insert"
          /\ faults' = Fault(ok)
  /\ clock' = clock + 1
  /\ oid' = oid + 1
  /\ attempted' = attempted \cup {"address_insert"}
  /\ UNCHANGED <<source, run, process, views, readIdx, cursors, phases, readLog,
                 viewReported, deleted, lastRun>>

\* lines 469-471: insert_one(new_store), then the log line with
\* json.dumps(new_store)
store_insert ==
  /\ pc = "store_insert"
  /\ \E ok \in Outcomes :
       LET new_store == [store_id |-> NewStoreId, manager_staff_id |-> 1,
                         address_id |-> NewAddressId, last_update |-> clock]
           stored == WithId(new_store, oid + 1)
       IN /\ db' = IF ok THEN insert_one(db, "store", stored) ELSE db
          /\ errors' = IF ~ok \/ json_dumps_raises(stored)
                       THEN errors \cup {"main"} ELSE errors
          /\ failed' = IF ~ok THEN failed \cup {<<"op", "store_insert">>}
                       ELSE IF json_dumps_raises(stored) THEN failed \cup {<<"log", "new_store">>}
                       ELSE failed
          /\ pc' = IF ~ok \/ json_dumps_raises(stored) THEN "finally"
                   ELSE "inventory_update"
          /\ faults' = Fault(ok)
  /\ clock' = clock + 1
  /\ oid' = oid + 1
  /\ attempted' = attempted \cup {"store_insert"}
  /\ UNCHANGED <<source, run, process, views, readIdx, cursors, phases, readLog,
                 viewReported, deleted, lastRun>>

\* lines 474-476: update_many({}, store_setter), then the log line with
\* json.dumps(store_setter); update_many leaves store_setter as it is
inventory_update ==
  /\ pc = "inventory_update"
  /\ \E ok \in Outcomes :
       LET store_setter == [store_id |-> NewStoreId, last_update |-> clock]
       IN /\ db' = IF ok THEN update_many(db, "inventory", store_setter) ELSE db
          /\ errors' = IF ~ok \/ json_dumps_raises(store_setter)
                       THEN errors \cup {"main"} ELSE errors
          /\ failed' = IF ~ok THEN failed \cup {<<"op", "inventory_update">>}
                       ELSE IF json_dumps_raises(store_setter) THEN failed \cup {<<"log", "store_setter">>}
                       ELSE failed
          /\ pc' = IF ~ok \/ json_dumps_raises(store_setter) THEN "finally"
                   ELSE "short_films"
          /\ faults' = Fault(ok)
  /\ clock' = clock + 1
  /\ phases' = IF pc' = "short_films" THEN Append(phases, "Deleting") ELSE phases
  /\ attempted' = attempted \cup {"inventory_update"}
  /\ UNCHANGED <<source, run, process, views, readIdx, cursors, oid, readLog,
                 viewReported, deleted, lastRun>>

\* -------------------------------------------------------- main(): deletes
\* {'$lookup': {localField: film_id, from: film, foreignField: film_id, as: film}}
Lookup(d, inv) == SelectSeq(Docs(d, "film"), LAMBDA f : f.film_id = inv.film_id)

\* {'$match': {'film.length': {'$lt': 60}}}: some element of the array matches
Match(films) == \E k \in 1..Len(films) : films[k].length < ShortLength

RECURSIVE FetchBatch(_, _, _, _)
\* The server evaluates the pipeline when a batch is asked for: it scans on
\* through the inventory documents that were left to scan (rest), skipping
\* those deleted since, and joins and filters each one against the film
\* collection as it is now (d), until the batch holds k results.
FetchBatch(d, rest, k, buf) ==
  IF rest = <<>> \/ Len(buf) = k THEN [buf |-> buf, rest |-> rest]
  ELSE LET inv == Head(rest)
           films == Lookup(d, inv)
       IN IF inv \in Range(Docs(d, "inventory")) /\ Match(films)
          THEN FetchBatch(d, Tail(rest), k,
                          Append(buf, [inventory_id |-> inv.inventory_id,
                                       film_id |-> inv.film_id, film |-> films]))
          ELSE FetchBatch(d, Tail(rest), k, buf)

\* the keys of the documents of coll that are in d and no more in e
Removed(d, e, coll, key) ==
  {x[key] : x \in Range(Docs(d, coll))} \ {x[key] : x \in Range(Docs(e, coll))}

\* line 492: inventory = MongoDB.db['inventory'].aggregate(short_films); the
\* reply carries the first batch
short_films ==
  /\ pc = "short_films"
  /\ \E ok \in Outcomes : \E k \in 1..MaxBatch :
       /\ ~ok => k = 1
       /\ invCur' = IF ok THEN FetchBatch(db, Docs(db, "inventory"), k, <<>>) ELSE NoCursor
       /\ errors' = IF ok THEN errors ELSE errors \cup {"main"}
       /\ failed' = IF ok THEN failed ELSE failed \cup {<<"op", "short_films">>}
       /\ faults' = Fault(ok)
       /\ pc' = IF ok THEN "for_item" ELSE "finally"
  /\ attempted' = attempted \cup {"short_films"}
  /\ UNCHANGED <<source, run, process, server, readIdx, staffCur, item, rentsCur, time,
                 phases, readLog, viewReported, deleted, lastRun>>

\* line 494: for item in inventory.  The cursor hands out what it has
\* buffered; when that is used up and the scan is not at its end, it asks the
\* server for the next batch.
for_item ==
  /\ pc = "for_item"
  /\ IF invCur.buf # <<>>
     THEN /\ item' = Head(invCur.buf)
          /\ invCur' = [invCur EXCEPT !.buf = Tail(@)]
          /\ pc' = "rents"
          /\ UNCHANGED <<errors, failed, faults>>
     ELSE IF invCur.rest = <<>>
     THEN /\ pc' = "sweep"
          /\ UNCHANGED <<item, invCur, errors, failed, faults>>
     ELSE \E ok \in Outcomes : \E k \in 1..MaxBatch :
            LET b == FetchBatch(db, invCur.rest, k, <<>>)
            IN /\ ~ok => k = 1
               /\ item' = IF ok /\ b.buf # <<>> THEN Head(b.buf) ELSE item
               /\ invCur' = IF ok /\ b.buf # <<>>
                            THEN [buf |-> Tail(b.buf), rest |-> b.rest] ELSE NoCursor
               /\ errors' = IF ok THEN errors ELSE errors \cup {"main"}
               /\ failed' = IF ok THEN failed ELSE failed \cup {<<"op", "getMore">>}
               /\ faults' = Fault(ok)
               /\ pc' = IF ~ok THEN "finally"
                        ELSE IF b.buf # <<>> THEN "rents" ELSE "sweep"
  /\ UNCHANGED <<source, run, process, server, readIdx, staffCur, rentsCur, time,
                 phases, attempted, readLog, viewReported, deleted, lastRun>>

\* line 495: rents = MongoDB.db['rental'].aggregate([{'$match': ...}])
rents ==
  /\ pc = "rents"
  /\ \E ok \in Outcomes :
       /\ rentsCur' = IF ok
                      THEN SelectSeq(Docs(db, "rental"),
                                     LAMBDA r : r.inventory_id = item.inventory_id)
                      ELSE <<>>
       /\ errors' = IF ok THEN errors ELSE errors \cup {"main"}
       /\ failed' = IF ok THEN failed ELSE failed \cup {<<"op", "rents">>}
       /\ faults' = Fault(ok)
       /\ pc' = IF ok THEN "payment_delete" ELSE "finally"
  /\ attempted' = attempted \cup {"rents"}
  /\ UNCHANGED <<source, run, process, server, readIdx, staffCur, invCur, item, time,
                 phases, readLog, viewReported, deleted, lastRun>>

\* a cascade that never deletes the payments of the rentals it read
payment_delete_skipped ==
  /\ pc = "payment_delete"
  /\ pc' = "rental_delete"
  /\ rentsCur' = <<>>
  /\ UNCHANGED <<source, run, process, server, readIdx, staffCur, invCur, item, time,
                 faults, history, lastRun>>

\* lines 496-497: one turn of the loop over rents, or its end
payment_delete ==
  /\ pc = "payment_delete"
  /\ IF rentsCur = <<>>
     THEN /\ pc' = "rental_delete"
          /\ UNCHANGED <<db, rentsCur, attempted, errors, failed, faults>>
     ELSE \E ok \in Outcomes :
            LET rent == Head(rentsCur)
            IN /\ rentsCur' = Tail(rentsCur)
               /\ db' = IF ok THEN delete_many(db, "payment", "rental_id", rent.rental_id)
                        ELSE db
               /\ attempted' = attempted \cup {"payment_delete"}
               /\ errors' = IF ok THEN errors ELSE errors \cup {"main"}
               /\ failed' = IF ok THEN failed ELSE failed \cup {<<"op", "payment_delete">>}
               /\ faults' = Fault(ok)
               /\ pc' = IF ok THEN "payment_delete" ELSE "finally"
  /\ UNCHANGED <<source, run, process, views, readIdx, staffCur, invCur, item, time,
                 phases, readLog, viewReported, deleted, lastRun>>

\* line 498
rental_delete ==
  /\ pc = "rental_delete"
  /\ \E ok \in Outcomes :
       /\ db' = IF ok THEN delete_many(db, "rental", "inventory_id", item.inventory_id)
                ELSE db
       /\ errors' = IF ok THEN errors ELSE errors \cup {"main"}
       /\ failed' = IF ok THEN failed ELSE failed \cup {<<"op", "rental_delete">>}
       /\ faults' = Fault(ok)
       /\ pc' = IF ok THEN "inventory_delete" ELSE "finally"
  /\ deleted' = [deleted EXCEPT !.rental = @ \cup Removed(db, db', "rental", "rental_id")]
  /\ attempted' = attempted \cup {"rental_delete"}
  /\ UNCHANGED <<source, run, process, views, readIdx, cursors, time, phases, readLog,
                 viewReported, lastRun>>

\* line 499
inventory_delete ==
  /\ pc = "inventory_delete"
  /\ \E ok \in Outcomes :
       /\ db' = IF ok THEN delete_many(db, "inventory", "inventory_id", item.inventory_id)
                ELSE db
       /\ errors' = IF ok THEN errors ELSE errors \cup {"main"}
       /\ failed' = IF ok THEN failed ELSE failed \cup {<<"op", "inventory_delete">>}
       /\ faults' = Fault(ok)
       /\ pc' = IF ok THEN "film_delete" ELSE "finally"
  /\ deleted' = [deleted EXCEPT
                   !.inventory = @ \cup Removed(db, db', "inventory", "inventory_id")]
  /\ attempted' = attempted \cup {"inventory_delete"}
  /\ UNCHANGED <<source, run, process, views, readIdx, cursors, time, phases, readLog,
                 viewReported, lastRun>>

\* line 500
film_delete ==
  /\ pc = "film_delete"
  /\ \E ok \in Outcomes :
       /\ db' = IF ok THEN delete_many(db, "film", "film_id", item.film_id) ELSE db
       /\ errors' = IF ok THEN errors ELSE errors \cup {"main"}
       /\ failed' = IF ok THEN failed ELSE failed \cup {<<"op", "film_delete">>}
       /\ faults' = Fault(ok)
       /\ pc' = IF ok THEN "for_item" ELSE "finally"
  /\ deleted' = [deleted EXCEPT !.film = @ \cup Removed(db, db', "film", "film_id")]
  /\ attempted' = attempted \cup {"film_delete"}
  /\ UNCHANGED <<source, run, process, views, readIdx, cursors, time, phases, readLog,
                 viewReported, lastRun>>

\* line 505: MongoDB.db['film'].delete_many({'length': {'$lt': 60}}), the last
\* statement of the try block
sweep ==
  /\ pc = "sweep"
  /\ \E ok \in Outcomes :
       /\ db' = IF ok /\ "film" \in DOMAIN db
                THEN [db EXCEPT !["film"] = SelectSeq(@, LAMBDA f : ~(f.length < ShortLength))]
                ELSE db
       /\ errors' = IF ok THEN errors ELSE errors \cup {"main"}
       /\ failed' = IF ok THEN failed ELSE failed \cup {<<"op", "sweep">>}
       /\ faults' = Fault(ok)
  /\ pc' = "finally"
  /\ deleted' = [deleted EXCEPT !.film = @ \cup Removed(db, db', "film", "film_id")]
  /\ attempted' = attempted \cup {"sweep"}
  /\ UNCHANGED <<source, run, process, views, readIdx, cursors, time, phases, readLog,
                 viewReported, lastRun>>

\* --------------------------------------------------------- main(): finally
\* lines 516-519
finally ==
  /\ pc = "finally"
  /\ pgConn' = IF pgConn = "open" THEN "closed" ELSE pgConn
  /\ phases' = Append(phases, "Done")
  /\ pc' = "returned"
  /\ UNCHANGED <<source, run, listTables, json_tables, hasDb, listCollections, server,
                 readIdx, cursors, time, faults, attempted, readLog, errors, failed,
                 viewReported, deleted, lastRun>>

\* the program is started again: a new process, the same source and server
Rerun ==
  /\ pc \in {"returned", "raised"}
  /\ run < MaxRuns
  /\ run' = run + 1
  /\ lastRun' = [pc |-> pc, db |-> db, views |-> views, errors |-> errors,
                 failed |-> failed]
  /\ pc' = "read_config_pg"
  /\ pgConn' = "absent"
  /\ listTables' = <<>>
  /\ json_tables' = <<>>
  /\ hasDb' = FALSE
  /\ listCollections' = <<>>
  /\ readIdx' = 1
  /\ staffCur' = <<>>
  /\ invCur' = NoCursor
  /\ item' = NoItem
  /\ rentsCur' = <<>>
  /\ oid' = 0
  /\ phases' = <<>>
  /\ attempted' = {}
  /\ readLog' = <<>>
  /\ errors' = {}
  /\ failed' = {}
  /\ viewReported' = FALSE
  /\ deleted' = NoDeleted
  /\ UNCHANGED <<source, server, clock, faults>>

Next ==
  \/ read_config_pg
  \/ PGDB_init
  \/ read_config_mongo
  \/ MDB_init
  \/ get_json_tables
  \/ json_dict_insert
  \/ aggregate
  \/ create_view
  \/ staff_aggregate
  \/ staff_update
  \/ address_insert
  \/ finally

\* one execution of main()
Spec == Init /\ [][Next]_vars

\* ------------------------------------------------- main(), run repeatedly
\* executions of main() one after the other, in an environment that answers
\* or refuses connections but fails no single query or store operation
InitTwice == Start(MaxFaults)

NextTwice == Next \/ Rerun

SpecTwice == InitTwice /\ [][NextTwice]_vars

\* ------------------------------------------- main() from line 468 onwards
\* main() never gets beyond line 466 (address_insert), and the statements from
\* line 468 on never run in Spec.  SpecRest runs them on their own: main() is
\* put at line 468 or at line 473, as if the statements before had completed,
\* with the destination that json_dict_insert makes of the first tables of the
\* source and the address of line 465 in it.
LoadedDb(n) ==
  [t \in Range(SubSeq(BaseTables, 1, n)) |-> WithIds(FullRows[t], 0)]

InitRest ==
  /\ pgTables = BaseTables
  /\ pgRows = [t \in Range(BaseTables) |-> FullRows[t]]
  /\ run = 1
  /\ pc \in {"store_insert", "inventory_update"}
  /\ pgConn = "open"
  /\ listTables = BaseTables
  /\ \E n \in 0..Len(BaseTables) :
       /\ json_tables = [i \in 1..n |-> [table |-> BaseTables[i],
                                         docs |-> FullRows[BaseTables[i]]]]
       /\ listCollections = SubSeq(BaseTables, 1, n)
       /\ db = insert_one(LoadedDb(n), "address",
                          WithId([address_id |-> NewAddressId, city_id |-> NewCityId,
                                  last_update |-> 1], 99))
  /\ hasDb = TRUE
  /\ views = EmptyDb
  /\ readIdx = Len(Battery)
  /\ staffCur = <<>>
  /\ invCur = NoCursor
  /\ item = NoItem
  /\ rentsCur = <<>>
  /\ clock = 2
  /\ oid = 100
  /\ faults = 0
  /\ phases = <<"Extracting", "Loading", "Reading", "Mutating">>
  /\ attempted = {}
  /\ readLog = Battery
  /\ errors = {}
  /\ failed = {}
  /\ viewReported = TRUE
  /\ deleted = NoDeleted
  /\ lastRun = NoRun

NextRest ==
  \/ store_insert
  \/ inventory_update
  \/ short_films
  \/ for_item
  \/ rents
  \/ payment_delete
  \/ rental_delete
  \/ inventory_delete
  \/ film_delete
  \/ sweep
  \/ finally

SpecRest == InitRest /\ [][NextRest]_vars

\* ================================================================= claims
Tables(dict) == {dict[i].table : i \in 1..Len(dict)}

Raised(what) == {f[2] : f \in {g \in failed : g[1] = what}}

\* main() has just returned from json_dict_insert
Loaded == pc = "aggregate" /\ readLog = <<>>

\* C1: whenever main() is left with the source connection established, the
\* connection has been closed.
C1_ConnClosedOnExit == pc \in {"returned", "raised"} => pgConn # "open"

\* C2: with no connection error and no injected error, after get_json_tables
\* and json_dict_insert the destination has exactly one collection per source
\* table, with as many documents as the table has rows (tables with no rows
\* included).
C2_LoadComplete ==
  (Loaded /\ faults = 0 /\ errors \cap {"PGDB", "MDB"} = {})
    => /\ DOMAIN db = Range(pgTables)
       /\ \A t \in Range(pgTables) : Len(db[t]) = Len(pgRows[t])

\* C3: when the source connection cannot be established, main() issues no
\* load, read, view creation, mutation or delete to the document store and
\* enters no phase after Extracting but Done.
C3_SourceUnavailableFatal ==
  <<"connect", "postgresql">> \in failed
    => /\ attempted \subseteq {"drop_database"}
       /\ Range(phases) \subseteq {"Extracting", "Done"}

\* C4: when the extraction of a table raises in get_json_tables, the returned
\* mapping holds every table of the list but the ones whose extraction raised.
C4_ExtractSkipsOnlyFailed ==
  (pc = "json_dict_insert" /\ Raised("extract") # {})
    => Tables(json_tables) = Range(listTables) \ Raised("extract")

\* C5: when the insert of a table raises in json_dict_insert, every table of
\* the mapping whose own insert did not raise is a collection, and
\* listCollections holds exactly those tables.
C5_LoadSkipsOnlyFailed ==
  (Loaded /\ hasDb /\ Raised("insert") # {})
    => /\ Tables(json_tables) \ Raised("insert") \subseteq DOMAIN db
       /\ Range(listCollections) = Tables(json_tables) \ Raised("insert")

\* C6: the reads are attempted in the order of the battery, and once a read
\* has failed, main() leaves the battery only with every read attempted and
\* goes on from the view creation into Mutating.
C6_ReadsContinue ==
  /\ readLog = SubSeq(Battery, 1, Len(readLog))
  /\ Raised("read") # {} /\ pc # "aggregate" => readLog = Battery
  /\ Raised("read") # {} /\ pc \notin {"aggregate", "create_view"}
       => "Mutating" \in Range(phases)

\* a read failed on a server that answers, and main() is at the first mutation
C6_Witness ==
  /\ pc = "staff_aggregate"
  /\ hasDb
  /\ Raised("read") = {"count_films"}
  /\ readLog = Battery

\* C7: when a staff password update has failed, main() still attempts the
\* address insert, the store insert and the inventory update and enters
\* Deleting before it returns.
C7_MutationsIndependent ==
  (pc = "returned" /\ "update_one" \in Raised("op"))
    => /\ {"address_insert", "store_insert", "inventory_update"} \subseteq attempted
       /\ "Deleting" \in Range(phases)

Keys(coll, key) == {x[key] : x \in Range(Docs(db, coll))}

NoOrphans ==
  /\ Keys("inventory", "film_id") \cap deleted.film = {}
  /\ Keys("rental", "inventory_id") \cap deleted.inventory = {}
  /\ Keys("payment", "rental_id") \cap deleted.rental = {}

C9_ViewExistsSurfaced ==
  (pc = "staff_aggregate" /\ hasDb /\ "customer_list" \in DOMAIN db)
    => ~viewReported /\ "customer_list" \notin DOMAIN views

\* the documents of every collection without the fields in drop
Without(d, drop) ==
  [c \in DOMAIN d |->
     [i \in 1..Len(d[c]) |-> [f \in DOMAIN d[c][i] \ drop |-> d[c][i][f]]]]

\* this execution and the one before it returned, both connected to the
\* source and to the server, and the same operations raised in both
SameCourse ==
  /\ run > 1
  /\ pc = "returned"
  /\ lastRun.pc = "returned"
  /\ Raised("connect") = {}
  /\ failed = lastRun.failed
  /\ errors = lastRun.errors

CascadeStep ==
  /\ \A r \in Removed(db, db', "rental", "rental_id") :
       r \notin Keys("payment", "rental_id")
  /\ \A i \in Removed(db, db', "inventory", "inventory_id") :
       i \notin Keys("rental", "inventory_id")
  /\ (pc = "film_delete" /\ Removed(db, db', "film", "film_id") # {})
       => item.inventory_id \notin Keys("inventory", "inventory_id")

\* C11: in the cascade of a delete target the payments of its rentals are
\* deleted before the rentals, the rentals before the inventory document and
\* the inventory document before the film: no step deletes a parent while a
\* dependent of it selected for the target is still in its collection.
C11_ChildBeforeParent == [][CascadeStep]_vars

\* the cascade of inventory document 1 has run through: its payment, its
\* rental, the document itself and its film 1 are gone
C11_Witness ==
  /\ pc = "for_item"
  /\ item.inventory_id = 1
  /\ 1 \in deleted.rental /\ 1 \in deleted.inventory /\ 1 \in deleted.film
  /\ "payment" \in DOMAIN db
  /\ 1 \notin Keys("payment", "rental_id")

\* main() is between the READ START marker of line 425 and the UPDATE START
\* marker of line 455
InReading == pc \in {"aggregate", "create_view"}

\* C12 as stated: from the first read pipeline until the driver enters
\* Mutating no step changes the collections, their documents or the views.
C12_ReadingNoEffect == [][InReading => UNCHANGED <<db, views>>]_vars

\* the step adds the view customer_list on customer and changes no other view
AddsCustomerList ==
  /\ "customer_list" \notin DOMAIN views
  /\ DOMAIN views' = DOMAIN views \cup {"customer_list"}
  /\ \A v \in DOMAIN views : views'[v] = views[v]
  /\ views'["customer_list"].viewOn = "customer"

\* C12 as amended: from the first read pipeline until the driver enters
\* Mutating no step changes the collections or their documents; the eight
\* reads leave the views alone as well, and create_view changes the views at
\* most by adding customer_list.
C12_ReadingAddsOnlyView ==
  [][InReading => /\ db' = db
                  /\ (pc = "aggregate" => views' = views)
                  /\ (pc = "create_view" => (views' = views \/ AddsCustomerList))]_vars

\* Reading is over: the eight reads ran on the loaded collections and the
\* view was created
C12_Witness ==
  /\ pc = "staff_aggregate"
  /\ readLog = Battery
  /\ Len(Docs(db, "film")) = 3
  /\ "create_view" \notin errors
  /\ "customer_list" \in DOMAIN views

====
